---- MODULE Spec2Model ----
(***************************************************************************)
(* Model of the market-history analysis of EASteam                         *)
(* (src/src/service/MarketAnalyzer.js, class MarketAnalyzer).              *)
(*                                                                         *)
(* A run constructs an analyzer for one steamId, is handed a history       *)
(* (history.purchases, an object whose entries are visited in              *)
(* Object.entries order, and the catalog history.assets), parses it with   *)
(* parseMarketHistory and then applies calculateROI,                       *)
(* matchInventoryWithPurchases and calculateTransactionStatistics to the   *)
(* result.                                                                 *)
(*                                                                         *)
(* JavaScript values are modelled as TLA+ strings.  null and undefined are *)
(* the one value Null; String(v) is ToStr(v), which is not the identity:   *)
(* String(null) is the four-letter string "null".                          *)
(***************************************************************************)
EXTENDS Integers, Sequences, FiniteSets, TLC

VARIABLES
    steamId,         \* this.steamId of the analyzer
    historyKind,     \* what the caller passes as `history`
    history,         \* history.purchases, in Object.entries order
    assets,          \* history.assets, the catalog
    callsLeft,       \* parseMarketHistory calls the caller still makes
    pc,              \* "start", "parsed" or "failed" (the parser threw)
    parseResult,     \* value returned by the last parseMarketHistory call
    previousResult,  \* value returned by the call before that one
    warnings,        \* print(..., "warning") calls of the last parse
    roiArg,          \* what the caller passes to calculateROI
    roiStatus,       \* "none", "returned" or "thrown"
    roiResult,       \* value returned by calculateROI
    inventory,       \* the items passed to matchInventoryWithPurchases
    matchStatus,     \* "none" or "returned"
    matchResult,     \* value returned by matchInventoryWithPurchases
    statsStatus,     \* "none", "returned" or "thrown"
    statsResult,     \* value returned by calculateTransactionStatistics
    masterKey,       \* EncryptionService.masterKey
    vault,           \* the texts encrypted so far, as returned by encrypt
    encLast,         \* the last method called on the encryption service
    verifyResult,    \* value returned by the last verifyPassword
    account,         \* what the database holds for the account name
    loginPc,         \* where SteamClient.login stands
    attempts,        \* the ways of authenticating login has tried, in order
    restoreAttempts, \* the ways tryRestoreSession has tried, in order
    isLoggedIn,      \* SteamClient.isLoggedIn
    webSessionReady, \* SteamClient.webSessionReady
    loggedOnHandler, \* the 'loggedOn' listener of addEventHandlers is registered
    steamID,         \* SteamUser.steamID
    session,         \* what the events delivered so far say about the session
    eventCount,      \* number of events delivered
    requestOutcome,  \* outcome of the last getMarketHistory / getInventory
    fetchPc,         \* where getFullMarketHistory / getFullInventory stands
    fetchInput,      \* total_count reported by Steam, the inventory configs
    start,           \* `start` of getFullMarketHistory
    totalCount,      \* `totalCount` of getFullMarketHistory
    cursor,          \* position of the loop of getFullInventory
    requests,        \* number of requests sent by the call
    wire             \* the last two of the requests and sleeps of the call

inputVars == <<steamId, historyKind, history, assets, roiArg>>
parseVars == <<callsLeft, pc, parseResult, previousResult, warnings>>
roiVars == <<roiStatus, roiResult>>
matchVars == <<inventory, matchStatus, matchResult>>
statsVars == <<statsStatus, statsResult>>

analysisVars == <<inputVars, parseVars, roiVars, matchVars, statsVars>>
encryptionVars == <<masterKey, vault, encLast, verifyResult>>
clientVars == <<account, loginPc, attempts, restoreAttempts, isLoggedIn,
                webSessionReady, loggedOnHandler, steamID, session, eventCount,
                requestOutcome>>
fetchVars == <<fetchPc, fetchInput, start, totalCount, cursor, requests, wire>>
serviceVars == <<encryptionVars, clientVars, fetchVars>>

vars == <<analysisVars, serviceVars>>

(***************************************************************************)
(* Bounds                                                                  *)
(***************************************************************************)
\* largest number of entries in history.purchases
MaxEntries == 3

\* largest number of entries in history.purchases when the calls vary
MaxCallEntries == 2

\* largest number of entries in history.purchases when the catalog varies
MaxCatalogEntries == 1

\* largest number of items in the catalog history.assets
MaxCatalogItems == 2

\* largest number of items in the inventory
MaxInventory == 2

\* largest number of entries in a ledger whose amounts vary
MaxMoneyEntries == 2

\* largest number of entries in a ledger given to the statistics
MaxStatsEntries == 2

\* largest number of entries in a ledger given to the three calculators
MaxPipelineEntries == 2

\* largest number of entries in the ledger behind a data object whose counts
\* are arbitrary
MaxDataEntries == 1

\* largest number of events delivered to a SteamClient
MaxEvents == 5

\* largest number of page requests of one getFullMarketHistory followed
MaxRequests == 4

\* largest number of inventory configs
MaxConfigs == 3

(***************************************************************************)
(* JavaScript values                                                       *)
(***************************************************************************)
\* null / undefined (the code turns undefined into null with `?? null`)
Null == "<null>"

\* String(v)
ToStr(v) == IF v = Null THEN "null" ELSE v

\* truthiness of a string-or-null value: null, undefined and "" are falsy
Truthy(v) == v # Null /\ v # ""

(***************************************************************************)
(* Input domains                                                           *)
(***************************************************************************)
\* 64-bit steam ids, as strings (getSteamID64)
SteamIds == {"76561198000000001", "76561198000000002"}

\* asset.id of a raw entry: absent, or an id string
AssetIds == {Null, "null", "7"}

\* asset.new_id of a raw entry: absent, or an id string
NewIds == {Null, "7", "8"}

PaidAmounts == {10}
PaidFees == {0}
ReceivedAmounts == {15}

\* asset.appid and asset.contextid of a raw entry
AppIds == {"730"}
ContextIds == {"2"}

\* market_name of a raw entry
MarketNames == {"AK-47 | Redline"}

\* the keys of history.purchases, in Object.entries order
Keys == <<"101", "102", "103", "104", "105", "106">>
KeyOf(i) == Keys[i]

\* time_sold of an entry: unix seconds
TimesSold == {"1700000000"}

\* the entries of history.purchases whose fields are taken from the given sets
EntriesOf(purchasers, appids, contextids, ids, newIds, names, paid, fees, received, times) ==
    [steamid_purchaser : purchasers,
     asset : [appid : appids, contextid : contextids, id : ids, new_id : newIds],
     market_name : names,
     paid_amount : paid,
     paid_fee : fees,
     received_amount : received,
     time_sold : times]

\* the ledgers of at most n entries taken from E
LedgersOf(E, n) == UNION {[1..m -> E] : m \in 0..n}

RawEntries ==
    EntriesOf(SteamIds, AppIds, ContextIds, AssetIds, NewIds, MarketNames,
              PaidAmounts, PaidFees, ReceivedAmounts, TimesSold)

Ledgers == LedgersOf(RawEntries, MaxEntries)

\* history.assets is absent
NoCatalog == [present |-> FALSE, items |-> <<>>]

\* the items of history.assets[appid][contextid][assetid]
CatalogItems ==
    [appid : {"730"},
     contextid : {"2", "6"},
     assetid : {"7", "9"},
     market_hash_name : {"Sport Gloves", "Glove Case"},
     unowned_id : {Null, "7"}]

\* an object holds one value per key
DistinctKeys(items) ==
    \A i, j \in 1..Len(items) :
      (/\ items[i].appid = items[j].appid
       /\ items[i].contextid = items[j].contextid
       /\ items[i].assetid = items[j].assetid) => i = j

\* history.assets: absent, or its items in Object.values order
Catalogs ==
    {NoCatalog} \cup
    {[present |-> TRUE, items |-> q] :
       q \in {r \in UNION {[1..m -> CatalogItems] : m \in 0..MaxCatalogItems} :
                DistinctKeys(r)}}

\* entries whose catalog key and own market_name may be absent
CatalogEntries ==
    EntriesOf(SteamIds, {Null, "730"}, {"2"}, {Null, "7"}, {Null},
              {Null, "AK-47 | Redline", "Unknown Item"},
              PaidAmounts, PaidFees, ReceivedAmounts, TimesSold)

(***************************************************************************)
(* parseMarketHistory                                                      *)
(***************************************************************************)
\* the comparison of IsMyPurchase turned around
IsMyPurchase_Negated(transaction, mySteamId) ==
    transaction.steamid_purchaser # mySteamId

\* transaction.steamid_purchaser === mySteamId
IsMyPurchase(transaction, mySteamId) ==
    transaction.steamid_purchaser = mySteamId

MaxOf(S) == CHOOSE x \in S : \A y \in S : y <= x
MinOf(S) == CHOOSE x \in S : \A y \in S : x <= y

\* positions of the catalog items of history.assets[appid][contextid]
ContextAssets(a, appid, contextid) ==
    {i \in 1..Len(a.items) : /\ a.present
                             /\ a.items[i].appid = appid
                             /\ a.items[i].contextid = contextid}

\* ItemInfoName looking for the unowned_id before the key
ItemInfoName_UnownedFirst(transaction, a) ==
    LET appid == transaction.asset.appid
        contextid == transaction.asset.contextid
        assetid == transaction.asset.id
        context == ContextAssets(a, appid, contextid)
        direct == {i \in context : a.items[i].assetid = assetid}
        byUnownedId == {i \in context : a.items[i].unowned_id = assetid}
    IN IF ~(Truthy(appid) /\ Truthy(contextid) /\ Truthy(assetid)) THEN Null
       ELSE IF byUnownedId # {} THEN a.items[MinOf(byUnownedId)].market_hash_name
       ELSE IF direct # {} THEN a.items[MinOf(direct)].market_hash_name
       ELSE Null

\* itemInfo?.market_hash_name: the name of the catalog item found for an
\* entry, by its key or else as the first item of the context whose
\* unowned_id is the entry's asset id; Null when itemInfo is null
ItemInfoName(transaction, a) ==
    LET appid == transaction.asset.appid
        contextid == transaction.asset.contextid
        assetid == transaction.asset.id
        context == ContextAssets(a, appid, contextid)
        direct == {i \in context : a.items[i].assetid = assetid}
        byUnownedId == {i \in context : a.items[i].unowned_id = assetid}
    IN IF ~(Truthy(appid) /\ Truthy(contextid) /\ Truthy(assetid)) THEN Null
       ELSE IF direct # {} THEN a.items[MinOf(direct)].market_hash_name
       ELSE IF byUnownedId # {} THEN a.items[MinOf(byUnownedId)].market_hash_name
       ELSE Null

\* itemInfo?.market_hash_name || transaction.market_name || "Unknown Item"
ResolveMarketName(transaction, a) ==
    IF Truthy(ItemInfoName(transaction, a)) THEN ItemInfoName(transaction, a)
    ELSE IF Truthy(transaction.market_name) THEN transaction.market_name
    ELSE "Unknown Item"

\* an absent number (undefined)
Undefined == -1000000

\* v || 0 for a number or undefined
OrZero(v) == IF v = Undefined THEN 0 ELSE v

\* v || null
OrNull(v) == IF Truthy(v) THEN v ELSE Null

\* the `parsed` object built for one entry of history.purchases
ParseEntry(key, transaction, mySteamId, a) ==
    [id |-> key,
     new_id |-> transaction.asset.new_id,
     appid |-> transaction.asset.appid,
     contextid |-> transaction.asset.contextid,
     assetid |-> transaction.asset.id,
     type |-> IF IsMyPurchase(transaction, mySteamId) THEN "purchase" ELSE "sale",
     market_name |-> ResolveMarketName(transaction, a),
     paid_amount |-> OrZero(transaction.paid_amount),
     paid_fee |-> OrZero(transaction.paid_fee),
     paid_total |-> OrZero(transaction.paid_amount) + OrZero(transaction.paid_fee),
     time_sold |-> OrNull(transaction.time_sold),
     steamid_purchaser |-> transaction.steamid_purchaser,
     raw |-> transaction]

ParsedEntries(h, a, mySteamId) ==
    [i \in 1..Len(h) |-> ParseEntry(KeyOf(i), h[i], mySteamId, a)]

\* the warnings printed by the first loop: the asset id of every entry whose
\* name is "Unknown Item", in entry order
RECURSIVE UnknownItemWarnings(_, _)
UnknownItemWarnings(parsedEntries, i) ==
    IF i > Len(parsedEntries)
    THEN <<>>
    ELSE (IF parsedEntries[i].market_name = "Unknown Item"
          THEN <<parsedEntries[i].assetid>>
          ELSE <<>>)
         \o UnknownItemWarnings(parsedEntries, i + 1)

IsPurchaseType(p) == p.type = "purchase"
IsSaleType(p) == p.type = "sale"

AccountPurchases(h, a, mySteamId) ==
    SelectSeq(ParsedEntries(h, a, mySteamId), IsPurchaseType)
AccountSales(h, a, mySteamId) ==
    SelectSeq(ParsedEntries(h, a, mySteamId), IsSaleType)

\* SalesByAssetId keeping the first sale of an asset id instead of the last
SalesByAssetId_FirstWins(accountSales) ==
    LET idx == {i \in 1..Len(accountSales) : Truthy(accountSales[i].assetid)}
        keys == {ToStr(accountSales[i].assetid) : i \in idx}
    IN [k \in keys |->
          accountSales[MinOf({i \in idx : ToStr(accountSales[i].assetid) = k})]]

\* new Map(accountSales.filter(s => s.assetid).map(s => [String(s.assetid), s])):
\* a later pair with the same key replaces the earlier one
SalesByAssetId(accountSales) ==
    LET idx == {i \in 1..Len(accountSales) : Truthy(accountSales[i].assetid)}
        keys == {ToStr(accountSales[i].assetid) : i \in idx}
    IN [k \in keys |->
          accountSales[MaxOf({i \in idx : ToStr(accountSales[i].assetid) = k})]]

PurchaseTx(purchase, status, saleId) ==
    [transaction_id |-> <<"purchase", purchase.id>>,
     transaction_status |-> status,
     role |-> "purchase",
     purchase_id |-> purchase.id,
     purchase |-> purchase,
     linked_sale_id |-> saleId,
     linked_purchase_id |-> Null,
     time_sold |-> purchase.time_sold]

SaleTx(sale, status, purchaseId) ==
    [transaction_id |-> <<"sale", sale.id>>,
     transaction_status |-> status,
     role |-> "sale",
     purchase_id |-> sale.id,
     purchase |-> sale,
     linked_sale_id |-> Null,
     linked_purchase_id |-> purchaseId,
     time_sold |-> sale.time_sold]

\* one iteration of `for (const purchase of accountPurchases)`
LinkPurchase(purchase, salesByAssetId, acc) ==
    LET new_id == ToStr(purchase.new_id)
    IN IF new_id \in DOMAIN salesByAssetId
       THEN LET matchedSale == salesByAssetId[new_id]
            IN [transactions |->
                   acc.transactions \o
                     <<PurchaseTx(purchase, "completed", matchedSale.id),
                       SaleTx(matchedSale, "completed", purchase.id)>>,
                matchedSaleIds |-> acc.matchedSaleIds \cup {ToStr(matchedSale.id)}]
       ELSE [transactions |->
                acc.transactions \o <<PurchaseTx(purchase, "uncompleted", Null)>>,
             matchedSaleIds |-> acc.matchedSaleIds]

RECURSIVE LinkPurchases(_, _, _, _)
LinkPurchases(accountPurchases, salesByAssetId, i, acc) ==
    IF i > Len(accountPurchases)
    THEN acc
    ELSE LinkPurchases(accountPurchases, salesByAssetId, i + 1,
                       LinkPurchase(accountPurchases[i], salesByAssetId, acc))

\* ReceivedSales passing over the sales that have no asset id
RECURSIVE ReceivedSales_SkipNoAssetId(_, _, _)
ReceivedSales_SkipNoAssetId(accountSales, matchedSaleIds, i) ==
    IF i > Len(accountSales)
    THEN <<>>
    ELSE (IF /\ ToStr(accountSales[i].id) \notin matchedSaleIds
             /\ Truthy(accountSales[i].assetid)
          THEN <<SaleTx(accountSales[i], "received", Null)>>
          ELSE <<>>)
         \o ReceivedSales_SkipNoAssetId(accountSales, matchedSaleIds, i + 1)

\* `for (const sale of accountSales)`: the sales no purchase has claimed
RECURSIVE ReceivedSales(_, _, _)
ReceivedSales(accountSales, matchedSaleIds, i) ==
    IF i > Len(accountSales)
    THEN <<>>
    ELSE (IF ToStr(accountSales[i].id) \notin matchedSaleIds
          THEN <<SaleTx(accountSales[i], "received", Null)>>
          ELSE <<>>)
         \o ReceivedSales(accountSales, matchedSaleIds, i + 1)

\* CountStats counting both records of a completed pair
RECURSIVE CountStats_AnyRole(_, _)
CountStats_AnyRole(transactions, i) ==
    IF i > Len(transactions)
    THEN [completed |-> 0, uncompleted |-> 0, received |-> 0]
    ELSE LET t == transactions[i]
             rest == CountStats_AnyRole(transactions, i + 1)
         IN [completed |-> rest.completed +
                (IF t.transaction_status = "completed" THEN 1 ELSE 0),
             uncompleted |-> rest.uncompleted +
                (IF t.transaction_status = "uncompleted" THEN 1 ELSE 0),
             received |-> rest.received +
                (IF t.transaction_status = "received" THEN 1 ELSE 0)]

\* transactions.reduce(...): the three status counters
RECURSIVE CountStats(_, _)
CountStats(transactions, i) ==
    IF i > Len(transactions)
    THEN [completed |-> 0, uncompleted |-> 0, received |-> 0]
    ELSE LET t == transactions[i]
             rest == CountStats(transactions, i + 1)
         IN [completed |-> rest.completed +
                (IF t.transaction_status = "completed" /\ t.role = "sale" THEN 1 ELSE 0),
             uncompleted |-> rest.uncompleted +
                (IF t.transaction_status = "uncompleted" THEN 1 ELSE 0),
             received |-> rest.received +
                (IF t.transaction_status = "received" THEN 1 ELSE 0)]

parseMarketHistory(h, a, sid) ==
    LET mySteamId == ToStr(sid)
        accountPurchases == AccountPurchases(h, a, mySteamId)
        accountSales == AccountSales(h, a, mySteamId)
        salesByAssetId == SalesByAssetId(accountSales)
        linked == LinkPurchases(accountPurchases, salesByAssetId, 1,
                                [transactions |-> <<>>, matchedSaleIds |-> {}])
        transactions == linked.transactions \o
                          ReceivedSales(accountSales, linked.matchedSaleIds, 1)
        stats == CountStats(transactions, 1)
    IN [transactions |-> transactions,
        purchases_count |-> Len(accountPurchases),
        completed_purchases_count |-> stats.completed,
        uncompleted_purchases_count |-> stats.uncompleted,
        sales_count |-> Len(accountSales),
        received_sales_count |-> stats.received,
        totalTransactions |-> Len(accountPurchases) + Len(accountSales)]

(***************************************************************************)
(* calculateROI                                                            *)
(***************************************************************************)
\* new Map(transactions.filter(t => t.role === "sale").map(t => [t.purchase_id, t]))
\* salesMap keyed by the id of the linked purchase instead of the sale's own id
SalesMap_ByLinkedPurchase(transactions) ==
    LET idx == {i \in 1..Len(transactions) : transactions[i].role = "sale"}
        keys == {transactions[i].linked_purchase_id : i \in idx}
    IN [k \in keys |->
          transactions[MaxOf({i \in idx : transactions[i].linked_purchase_id = k})]]

SalesMap(transactions) ==
    LET idx == {i \in 1..Len(transactions) : transactions[i].role = "sale"}
        keys == {transactions[i].purchase_id : i \in idx}
    IN [k \in keys |->
          transactions[MaxOf({i \in idx : transactions[i].purchase_id = k})]]

\* (profit / buyPrice) * 100, then Number(roi.toFixed(2)), in hundredths of a
\* percent rounded half away from zero
RoiHundredths(profit, buyPrice) ==
    IF buyPrice > 0
    THEN LET n == profit * 10000
             a == IF n < 0 THEN -n ELSE n
             q == (2 * a + buyPrice) \div (2 * buyPrice)
         IN IF n < 0 THEN -q ELSE q
    ELSE 0

\* one pushed result, the buy price taken without the fee
RoiRecord_WithoutFee(purchaseTx, saleTx) ==
    LET buy == purchaseTx.purchase
        sell == saleTx.purchase
        buyPrice == buy.paid_amount
        sellPrice == OrZero(sell.raw.received_amount)
        profit == sellPrice - buyPrice
    IN [transaction_id |-> purchaseTx.purchase_id,
        buy_price |-> buyPrice,
        sell_price |-> sellPrice,
        profit |-> profit,
        roi_hundredths |-> RoiHundredths(profit, buyPrice),
        purchase_raw |-> buy,
        sale_raw |-> sell]

\* one pushed result
RoiRecord(purchaseTx, saleTx) ==
    LET buy == purchaseTx.purchase
        sell == saleTx.purchase
        buyPrice == buy.paid_total
        sellPrice == OrZero(sell.raw.received_amount)
        profit == sellPrice - buyPrice
    IN [transaction_id |-> purchaseTx.purchase_id,
        buy_price |-> buyPrice,
        sell_price |-> sellPrice,
        profit |-> profit,
        roi_hundredths |-> RoiHundredths(profit, buyPrice),
        purchase_raw |-> buy,
        sale_raw |-> sell]

\* the loop, skipping also the purchases whose buy price is 0
RECURSIVE RoiLoop_SkipZeroBuy(_, _, _)
RoiLoop_SkipZeroBuy(transactions, salesMap, i) ==
    IF i > Len(transactions)
    THEN <<>>
    ELSE LET purchaseTx == transactions[i]
             skip == \/ purchaseTx.role # "purchase"
                     \/ purchaseTx.transaction_status # "completed"
                     \/ ~Truthy(purchaseTx.linked_sale_id)
                     \/ purchaseTx.linked_sale_id \notin DOMAIN salesMap
                     \/ purchaseTx.purchase.paid_total = 0
         IN (IF skip
             THEN <<>>
             ELSE <<RoiRecord(purchaseTx, salesMap[purchaseTx.linked_sale_id])>>)
            \o RoiLoop_SkipZeroBuy(transactions, salesMap, i + 1)

RECURSIVE RoiLoop(_, _, _)
RoiLoop(transactions, salesMap, i) ==
    IF i > Len(transactions)
    THEN <<>>
    ELSE LET purchaseTx == transactions[i]
             skip == \/ purchaseTx.role # "purchase"
                     \/ purchaseTx.transaction_status # "completed"
                     \/ ~Truthy(purchaseTx.linked_sale_id)
                     \/ purchaseTx.linked_sale_id \notin DOMAIN salesMap
         IN (IF skip
             THEN <<>>
             ELSE <<RoiRecord(purchaseTx, salesMap[purchaseTx.linked_sale_id])>>)
            \o RoiLoop(transactions, salesMap, i + 1)

calculateROI(transactions) == RoiLoop(transactions, SalesMap(transactions), 1)

(***************************************************************************)
(* calculateTransactionStatistics                                          *)
(***************************************************************************)
\* the number NaN
NaN == -2000000

\* a + b for numbers, NaN and undefined
Plus(a, b) == IF {a, b} \cap {NaN, Undefined} # {} THEN NaN ELSE a + b

\* a - b for numbers, NaN and undefined
Minus(a, b) == IF {a, b} \cap {NaN, Undefined} # {} THEN NaN ELSE a - b

\* a time_sold later than the last instant a Date can hold (8.64e12 seconds)
BeyondDateRange == "10000000000000"

\* new Date(time_sold * 1000).toISOString() throws a RangeError; null * 1000
\* is 0, a valid time
DateThrows(time_sold) == time_sold = BeyondDateRange

\* the loop reaches a record whose date cannot be formatted
StatsThrows(transactions) ==
    \E i \in 1..Len(transactions) : DateThrows(transactions[i].time_sold)

\* received = purchase.raw.received_amount
ReceivedOf(transaction) == transaction.purchase.raw.received_amount

\* totalInvested and totalReceived after `for (const transaction of transactions)`
RECURSIVE StatsLoop(_, _, _)
StatsLoop(transactions, i, acc) ==
    IF i > Len(transactions)
    THEN acc
    ELSE LET transaction == transactions[i]
         IN StatsLoop(transactions, i + 1,
              IF transaction.role = "purchase"
              THEN [acc EXCEPT !.totalInvested =
                      Plus(@, transaction.purchase.paid_total)]
              ELSE IF transaction.role = "sale"
              THEN [acc EXCEPT !.totalReceived = Plus(@, ReceivedOf(transaction))]
              ELSE acc)

\* the overall ROI computed without the guard on totalInvested: x / 0 is
\* NaN or infinite, and parseFloat of its text is no number
TotalRoiHundredths_Unguarded(totalProfit, totalInvested) ==
    IF totalInvested # NaN /\ totalInvested # 0
    THEN IF totalProfit = NaN THEN NaN ELSE RoiHundredths(totalProfit, totalInvested)
    ELSE NaN

\* parseFloat of totalInvested > 0 ? ((totalProfit / totalInvested) * 100).toFixed(2) : 0,
\* in hundredths of a percent
TotalRoiHundredths(totalProfit, totalInvested) ==
    IF totalInvested # NaN /\ totalInvested > 0
    THEN IF totalProfit = NaN THEN NaN ELSE RoiHundredths(totalProfit, totalInvested)
    ELSE 0

\* the returned object, its counts taken from the transactions
calculateTransactionStatistics_Recounted(data) ==
    LET totals == StatsLoop(data.transactions, 1,
                            [totalInvested |-> 0, totalReceived |-> 0])
        totalProfit == Minus(totals.totalReceived, totals.totalInvested)
        stats == CountStats(data.transactions, 1)
        IsPurchaseRole(t) == t.role = "purchase"
        IsSaleRole(t) == t.role = "sale"
    IN [overall |->
         [totalInvested |-> totals.totalInvested,
          totalReceived |-> totals.totalReceived,
          totalProfit |-> totalProfit,
          roi_hundredths |-> TotalRoiHundredths(totalProfit, totals.totalInvested),
          totalTransactions |-> Len(data.transactions),
          purchasesCount |-> Len(SelectSeq(data.transactions, IsPurchaseRole)),
          salesCount |-> Len(SelectSeq(data.transactions, IsSaleRole)),
          completedPurchases |-> stats.completed,
          uncomletedPurchases |-> stats.uncompleted,
          receivedSales |-> stats.received]]

\* the returned object, which holds `overall` only: the per-item maps are
\* filled by the loop and dropped
calculateTransactionStatistics(data) ==
    LET totals == StatsLoop(data.transactions, 1,
                            [totalInvested |-> 0, totalReceived |-> 0])
        totalProfit == Minus(totals.totalReceived, totals.totalInvested)
    IN [overall |->
         [totalInvested |-> totals.totalInvested,
          totalReceived |-> totals.totalReceived,
          totalProfit |-> totalProfit,
          roi_hundredths |-> TotalRoiHundredths(totalProfit, totals.totalInvested),
          totalTransactions |-> Len(data.transactions),
          purchasesCount |-> data.purchases_count,
          salesCount |-> data.sales_count,
          completedPurchases |-> data.completed_purchases_count,
          uncomletedPurchases |-> data.uncompleted_purchases_count,
          receivedSales |-> data.received_sales_count]]

(***************************************************************************)
(* matchInventoryWithPurchases                                             *)
(***************************************************************************)
\* the items of the inventory
InventoryItems == [assetid : {"7", "8"}, icon_url : {"icon-a", "icon-b"}]

Inventories == UNION {[1..m -> InventoryItems] : m \in 0..MaxInventory}

\* entries for the match with the inventory
MatchEntries ==
    EntriesOf(SteamIds, AppIds, ContextIds, {Null, "7"}, NewIds, MarketNames,
              PaidAmounts, PaidFees, ReceivedAmounts, TimesSold)

\* new Map(inventory.map(item => [String(item.assetid), item]))
InventoryMap(inv) ==
    LET keys == {ToStr(inv[i].assetid) : i \in 1..Len(inv)}
    IN [k \in keys |-> inv[MaxOf({i \in 1..Len(inv) : ToStr(inv[i].assetid) = k})]]

\* t.role === "purchase" && t.purchase?.new_id
IsEligiblePurchase(t) == t.role = "purchase" /\ Truthy(t.purchase.new_id)

\* the key looked up in inventoryMap, taken from the pre-disposal id
InventoryKey_OldId(purchase) == ToStr(purchase.assetid)

\* purchaseAssetId = String(purchase.new_id)
InventoryKey(purchase) == ToStr(purchase.new_id)

\* the record pushed for one eligible purchase; icon_url is present in the
\* matched records only
MatchRecord(t, inventoryMap) ==
    LET purchase == t.purchase
        held == InventoryKey(purchase) \in DOMAIN inventoryMap
    IN [appid |-> purchase.appid,
        assetid |-> purchase.new_id,
        market_hash_name |-> purchase.market_name,
        paid_amount |-> purchase.paid_amount,
        paid_fee |-> purchase.paid_fee,
        paid_total |-> purchase.paid_total,
        time_sold |-> purchase.time_sold,
        transaction_id |-> t.transaction_id,
        transaction_status |-> t.transaction_status,
        icon_url |-> IF held THEN inventoryMap[InventoryKey(purchase)].icon_url ELSE Null,
        match_type |-> IF held THEN "purchased" ELSE "other_source"]

IsMatchedRecord(r) == r.match_type = "purchased"
IsUnmatchedRecord(r) == r.match_type = "other_source"

\* `for (const purchase of purchases)`
RECURSIVE MatchLoop(_, _, _)
MatchLoop(transactions, inventoryMap, i) ==
    IF i > Len(transactions)
    THEN <<>>
    ELSE (IF IsEligiblePurchase(transactions[i])
          THEN <<MatchRecord(transactions[i], inventoryMap)>>
          ELSE <<>>)
         \o MatchLoop(transactions, inventoryMap, i + 1)

\* the text "0%"
ZeroPercent == [hundredths |-> 0, decimals |-> 0]

\* Percentage cutting the third decimal off instead of rounding
Percentage_Truncated(count, total) ==
    IF total # 0
    THEN [hundredths |-> (count * 10000) \div total, decimals |-> 2]
    ELSE ZeroPercent

\* total ? ((count / total) * 100).toFixed(2) + "%" : "0%", the text with
\* two decimals given by its value in hundredths
Percentage(count, total) ==
    IF total # 0
    THEN [hundredths |-> (2 * count * 10000 + total) \div (2 * total), decimals |-> 2]
    ELSE ZeroPercent

matchInventoryWithPurchases(transactions, inv) ==
    LET records == MatchLoop(transactions, InventoryMap(inv), 1)
        matched == SelectSeq(records, IsMatchedRecord)
        unmatched == SelectSeq(records, IsUnmatchedRecord)
        total == Len(records)
    IN [matched |-> matched,
        unmatched |-> unmatched,
        total_purchases |-> total,
        matched_count |-> Len(matched),
        unmatched_count |-> Len(unmatched),
        statistics |->
          [matched_percentage |-> Percentage(Len(matched), total),
           unmatched_percentage |-> Percentage(Len(unmatched), total)]]

(***************************************************************************)
(* The run                                                                 *)
(***************************************************************************)
\* calculateTransactionStatistics has not returned
NoStats ==
    [overall |->
      [totalInvested |-> 0, totalReceived |-> 0, totalProfit |-> 0,
       roi_hundredths |-> 0, totalTransactions |-> 0, purchasesCount |-> 0,
       salesCount |-> 0, completedPurchases |-> 0, uncomletedPurchases |-> 0,
       receivedSales |-> 0]]

\* matchInventoryWithPurchases has not returned
NoMatch ==
    [matched |-> <<>>, unmatched |-> <<>>, total_purchases |-> 0,
     matched_count |-> 0, unmatched_count |-> 0,
     statistics |-> [matched_percentage |-> ZeroPercent,
                     unmatched_percentage |-> ZeroPercent]]

NoParse ==
    [transactions |-> <<>>, purchases_count |-> 0, completed_purchases_count |-> 0,
     uncompleted_purchases_count |-> 0, sales_count |-> 0,
     received_sales_count |-> 0, totalTransactions |-> 0]

\* what a caller may pass as `history`: an object with a purchases
\* collection, nothing (undefined or null), or an object without purchases
HistoryKinds == {"ledger", "undefined", "no_purchases"}

\* ParseThrows without the TypeError of a missing purchases collection
ParseThrows_OnlyFalsyHistory(kind) == kind = "undefined"

\* `if (!history) throw`, and Object.entries(history.purchases) throws a
\* TypeError when purchases is undefined; the catch block rethrows
ParseThrows(kind) == kind = "undefined" \/ kind = "no_purchases"

\* what a caller may pass to calculateROI: the transaction list, the whole
\* parse result, or nothing
RoiArgKinds == {"array", "object", "undefined"}

\* IsArray accepting every value that is not undefined
IsArray_AnyDefined(kind) == kind # "undefined"

\* Array.isArray(transactions)
IsArray(kind) == kind = "array"

\* PurchasesAfterParse deleting the entries as they are processed
PurchasesAfterParse_Consumed(h) == <<>>

\* history.purchases after a call of the parser, which reads the entries,
\* keeps them by reference in `raw` and assigns to none of them
PurchasesAfterParse(h) == h

\* `new EncryptionService()`: no key, and nothing encrypted yet
EncryptionIdle ==
    /\ masterKey = Null
    /\ vault = {}
    /\ encLast = "none"
    /\ verifyResult = "none"

\* the account name is not in the database
NoAccount == [exists |-> FALSE, refreshToken |-> "none", cookies |-> "none"]

\* `new SteamClient(accountId)`, with what the database holds for the account
ClientIdleWith(accounts) ==
    /\ account \in accounts
    /\ loginPc = "idle"
    /\ attempts = <<>>
    /\ restoreAttempts = <<>>
    /\ isLoggedIn = FALSE
    /\ webSessionReady = FALSE
    /\ loggedOnHandler = TRUE
    /\ steamID = Null
    /\ session = "down"
    /\ eventCount = 0
    /\ requestOutcome = "none"

\* `totalCount = null`
NoTotal == -1

\* no call of getFullMarketHistory or getFullInventory yet
FetchIdle ==
    /\ fetchPc = "idle"
    /\ fetchInput = [total_count |-> 0, configs |-> <<>>]
    /\ start = 0
    /\ totalCount = NoTotal
    /\ cursor = 0
    /\ requests = 0
    /\ wire = <<>>

\* the services next to the analyzer, after construction
ServicesIdle == EncryptionIdle /\ ClientIdleWith({NoAccount}) /\ FetchIdle

\* the state after construction, the inputs taken from the given sets
InitOf(steamIds, ledgers, catalogs, historyKinds, roiArgs, calls) ==
    /\ steamId \in steamIds
    /\ historyKind \in historyKinds
    /\ history \in (IF historyKind = "ledger" THEN ledgers ELSE {<<>>})
    /\ assets \in (IF historyKind = "ledger" THEN catalogs ELSE {NoCatalog})
    /\ roiArg \in roiArgs
    /\ callsLeft \in calls
    /\ pc = "start"
    /\ parseResult = NoParse
    /\ previousResult = NoParse
    /\ warnings = <<>>
    /\ roiStatus = "none"
    /\ roiResult = <<>>
    /\ inventory = <<>>
    /\ matchStatus = "none"
    /\ matchResult = NoMatch
    /\ statsStatus = "none"
    /\ statsResult = NoStats
    /\ ServicesIdle

Init == InitOf(SteamIds, Ledgers, {NoCatalog}, {"ledger"}, {"array"}, {1})

ParseMarketHistory ==
    /\ callsLeft > 0
    /\ pc # "failed"
    /\ callsLeft' = callsLeft - 1
    /\ IF ParseThrows(historyKind)
       THEN /\ pc' = "failed"
            /\ UNCHANGED <<parseResult, previousResult, warnings>>
       ELSE /\ pc' = "parsed"
            /\ parseResult' = parseMarketHistory(history, assets, steamId)
            /\ previousResult' = parseResult
            /\ warnings' = UnknownItemWarnings(
                              ParsedEntries(history, assets, ToStr(steamId)), 1)
    /\ history' = (IF ParseThrows(historyKind) THEN history
                   ELSE PurchasesAfterParse(history))
    /\ UNCHANGED <<steamId, historyKind, assets, roiArg, roiVars, matchVars, statsVars,
                   serviceVars>>

\* the transactions after calculateROI, had it stored the defaulted sell
\* price in the sale (sell.raw.received_amount ||= 0)
TransactionsAfterROI_Defaulted(transactions) ==
    [i \in 1..Len(transactions) |->
       IF transactions[i].role = "sale" /\ transactions[i].transaction_status = "completed"
       THEN [transactions[i] EXCEPT !.purchase.raw.received_amount = OrZero(@)]
       ELSE transactions[i]]

\* the transactions after calculateROI: it reads them and the objects they
\* hold, and writes to `results` only
TransactionsAfterROI(transactions) == transactions

\* the transactions after matchInventoryWithPurchases: filter and map build
\* new arrays and objects
TransactionsAfterMatch(transactions) == transactions

\* the inventory after matchInventoryWithPurchases: its items are put into
\* inventoryMap and read
InventoryAfterMatch(inv) == inv

\* the transactions after calculateTransactionStatistics: it writes to its
\* own maps and totals only
TransactionsAfterStats(transactions) == transactions

CalculateROI ==
    /\ pc = "parsed"
    /\ roiStatus = "none"
    /\ IF IsArray(roiArg)
       THEN /\ roiStatus' = "returned"
            /\ roiResult' = calculateROI(parseResult.transactions)
            /\ parseResult' = [parseResult EXCEPT
                                 !.transactions = TransactionsAfterROI(@)]
       ELSE /\ roiStatus' = "thrown"
            /\ UNCHANGED <<roiResult, parseResult>>
    /\ UNCHANGED <<inputVars, callsLeft, pc, previousResult, warnings,
                   matchVars, statsVars, serviceVars>>

MatchInventoryWithPurchases ==
    /\ pc = "parsed"
    /\ matchStatus = "none"
    /\ \E inv \in Inventories :
         /\ inventory' = InventoryAfterMatch(inv)
         /\ matchResult' = matchInventoryWithPurchases(parseResult.transactions, inv)
    /\ matchStatus' = "returned"
    /\ parseResult' = [parseResult EXCEPT !.transactions = TransactionsAfterMatch(@)]
    /\ UNCHANGED <<inputVars, callsLeft, pc, previousResult, warnings,
                   roiVars, statsVars, serviceVars>>

CalculateTransactionStatistics ==
    /\ pc = "parsed"
    /\ statsStatus = "none"
    /\ IF StatsThrows(parseResult.transactions)
       THEN /\ statsStatus' = "thrown"
            /\ UNCHANGED <<statsResult, parseResult>>
       ELSE /\ statsStatus' = "returned"
            /\ statsResult' = calculateTransactionStatistics(parseResult)
            /\ parseResult' = [parseResult EXCEPT
                                 !.transactions = TransactionsAfterStats(@)]
    /\ UNCHANGED <<inputVars, callsLeft, pc, previousResult, warnings,
                   roiVars, matchVars, serviceVars>>

Next == ParseMarketHistory \/ CalculateROI

Spec == Init /\ [][Next]_vars

\* the parser run on ledgers whose entries and catalog vary in what the
\* display name is resolved from
InitCatalog ==
    InitOf({"76561198000000001"}, LedgersOf(CatalogEntries, MaxCatalogEntries),
           Catalogs, {"ledger"}, {"array"}, {1})

SpecCatalog == InitCatalog /\ [][Next]_vars

\* the parser called twice, on valid and invalid histories, and calculateROI
\* called with valid and invalid arguments
InitCalls ==
    InitOf({"76561198000000001"}, LedgersOf(RawEntries, MaxCallEntries),
           {NoCatalog}, HistoryKinds, RoiArgKinds, {2})

SpecCalls == InitCalls /\ [][Next]_vars

\* entries whose amounts vary, absent amounts included
MoneyEntries ==
    EntriesOf(SteamIds, AppIds, ContextIds, {"7"}, {"7"}, MarketNames,
              {0, 3, 10}, {Undefined, 2}, {Undefined, 4, 15}, TimesSold)

\* ledgers whose amounts vary
InitMoney ==
    InitOf({"76561198000000001"}, LedgersOf(MoneyEntries, MaxMoneyEntries),
           {NoCatalog}, {"ledger"}, {"array"}, {1})

SpecMoney == InitMoney /\ [][Next]_vars

\* entries for the statistics: amounts and times vary
StatsEntries ==
    EntriesOf(SteamIds, AppIds, ContextIds, {"7"}, {Null, "7"}, MarketNames,
              {0, 10}, {2}, {Undefined, 15}, {Null, "1700000000", BeyondDateRange})

\* the parse result given to the three calculators
InitStats ==
    InitOf({"76561198000000001"}, LedgersOf(StatsEntries, MaxStatsEntries),
           {NoCatalog}, {"ledger"}, {"array"}, {1})

NextStats == ParseMarketHistory \/ CalculateROI \/ CalculateTransactionStatistics

SpecStats == InitStats /\ [][NextStats]_vars

\* entries for the three calculators run on one parse result
PipelineEntries ==
    EntriesOf(SteamIds, AppIds, ContextIds, {"7"}, {Null, "7"}, MarketNames,
              {0, 10}, {Undefined}, {Undefined, 15}, TimesSold)

InitPipeline ==
    InitOf({"76561198000000001"}, LedgersOf(PipelineEntries, MaxPipelineEntries),
           {NoCatalog}, {"ledger"}, {"array"}, {1})

\* fetchMarketData: the parse, then the three calculators in any order
NextPipeline ==
    \/ ParseMarketHistory
    \/ CalculateTransactionStatistics
    \/ CalculateROI
    \/ MatchInventoryWithPurchases

SpecPipeline == InitPipeline /\ [][NextPipeline]_vars

\* the counts a caller may put into a data object
DataCounts == 0..1

\* the data objects a caller may hand to calculateTransactionStatistics: the
\* transactions of a parse result with any counts next to them
DataObjectsOf(h, a, sid) ==
    LET parsed == parseMarketHistory(h, a, sid)
    IN {[parsed EXCEPT !.purchases_count = c[1],
                       !.sales_count = c[2],
                       !.completed_purchases_count = c[3],
                       !.uncompleted_purchases_count = c[4],
                       !.received_sales_count = c[5]] : c \in [1..5 -> DataCounts]}

\* calculateTransactionStatistics called on a data object of the caller
InitData ==
    /\ steamId = "76561198000000001"
    /\ historyKind = "ledger"
    /\ history \in LedgersOf(StatsEntries, MaxDataEntries)
    /\ assets = NoCatalog
    /\ roiArg = "array"
    /\ callsLeft = 0
    /\ pc = "parsed"
    /\ parseResult \in DataObjectsOf(history, assets, steamId)
    /\ previousResult = NoParse
    /\ warnings = <<>>
    /\ roiStatus = "none"
    /\ roiResult = <<>>
    /\ inventory = <<>>
    /\ matchStatus = "none"
    /\ matchResult = NoMatch
    /\ statsStatus = "none"
    /\ statsResult = NoStats
    /\ ServicesIdle

NextData == CalculateTransactionStatistics

SpecData == InitData /\ [][NextData]_vars

\* the parse result matched with an inventory
InitMatch ==
    InitOf({"76561198000000001"}, LedgersOf(MatchEntries, MaxEntries),
           {NoCatalog}, {"ledger"}, {"array"}, {1})

NextMatch == ParseMarketHistory \/ MatchInventoryWithPurchases

SpecMatch == InitMatch /\ [][NextMatch]_vars

\* the analyzer after construction, nothing parsed
AnalysisIdle ==
    /\ steamId = "76561198000000001"
    /\ historyKind = "ledger"
    /\ history = <<>>
    /\ assets = NoCatalog
    /\ roiArg = "array"
    /\ callsLeft = 0
    /\ pc = "start"
    /\ parseResult = NoParse
    /\ previousResult = NoParse
    /\ warnings = <<>>
    /\ roiStatus = "none"
    /\ roiResult = <<>>
    /\ inventory = <<>>
    /\ matchStatus = "none"
    /\ matchResult = NoMatch
    /\ statsStatus = "none"
    /\ statsResult = NoStats

(***************************************************************************)
(* EncryptionService (src/unnamed/part_001)                                *)
(***************************************************************************)
\* the passwords a caller may give
Passwords == {"master", "guess", "other"}

\* the texts a caller may encrypt
Texts == {"refresh token", "cookies"}

\* deriveKey(password, FIXED_SALT): the salt is fixed, so the key is a
\* function of the password
DeriveKey(password) == "pbkdf2:" \o password

\* encrypt: the text `iv:authTag:encryptedData`, given by its number of
\* parts, the key it was made with and the text it holds
Ciphertext(text, key) == [parts |-> 3, key |-> key, text |-> text]

\* a text that is not of the form iv:authTag:encryptedData
Malformed == [parts |-> 1, key |-> Null, text |-> ""]

\* decrypt throws: no key, not three parts, or the auth tag does not verify
\* under the key
DecryptThrows(encryptedText, key) ==
    \/ key = Null
    \/ encryptedText.parts # 3
    \/ encryptedText.key # key

Initialize ==
    \E password \in Passwords :
      /\ masterKey' = DeriveKey(password)
      /\ encLast' = "initialize"
      /\ UNCHANGED <<vault, verifyResult, analysisVars, clientVars, fetchVars>>

Encrypt ==
    \E text \in Texts :
      /\ masterKey # Null
      /\ vault' = vault \cup {Ciphertext(text, masterKey)}
      /\ encLast' = "encrypt"
      /\ UNCHANGED <<masterKey, verifyResult, analysisVars, clientVars, fetchVars>>

\* masterKey after verifyPassword: tempKey is stored, and currentKey is put
\* back only on the path where decrypt returns
KeyAfterVerify(tempKey, currentKey, encryptedTestData) ==
    IF DecryptThrows(encryptedTestData, tempKey) THEN tempKey ELSE currentKey

VerifyPassword ==
    \E password \in Passwords, encryptedTestData \in vault \cup {Malformed} :
      LET tempKey == DeriveKey(password)
          currentKey == masterKey
      IN /\ masterKey' = KeyAfterVerify(tempKey, currentKey, encryptedTestData)
         /\ verifyResult' = IF DecryptThrows(encryptedTestData, tempKey)
                             THEN "false" ELSE "true"
         /\ encLast' = "verifyPassword"
         /\ UNCHANGED <<vault, analysisVars, clientVars, fetchVars>>

InitEncryption == AnalysisIdle /\ ServicesIdle

NextEncryption == Initialize \/ Encrypt \/ VerifyPassword

SpecEncryption == InitEncryption /\ [][NextEncryption]_vars

(***************************************************************************)
(* SteamClient: login, events, isConnected                                 *)
(***************************************************************************)
\* what Account.findOne may return: no row, or a row with or without a
\* refresh token (saved, or saved and failing to decrypt) and cookies (none,
\* unexpired, expired)
Accounts ==
    {NoAccount} \cup
    [exists : {TRUE},
     refreshToken : {"none", "saved", "undecryptable"},
     cookies : {"none", "valid", "expired"}]

\* this.isLoggedIn && this.client.steamID && this.webSessionReady
IsConnected == isLoggedIn /\ Truthy(steamID) /\ webSessionReady

\* login: tryExistingAuth logs on with the saved refresh token when there is
\* one that decrypts; otherwise login logs on with name and password
Login ==
    /\ loginPc = "idle"
    /\ IF account.exists /\ account.refreshToken = "saved"
       THEN /\ attempts' = <<"refresh_token">>
            /\ loginPc' = "refresh_pending"
       ELSE /\ attempts' = <<"credentials">>
            /\ loginPc' = "credentials_pending"
    /\ UNCHANGED <<account, restoreAttempts, isLoggedIn, webSessionReady,
                   loggedOnHandler, steamID, session, eventCount, requestOutcome,
                   analysisVars, encryptionVars, fetchVars>>

\* the listener of addEventHandlers is registered with `once`: it is gone
\* after the first 'loggedOn'
LoggedOnHandlerAfter(registered) == FALSE

\* the event 'loggedOn'
SteamLoggedOn ==
    /\ eventCount < MaxEvents
    /\ eventCount' = eventCount + 1
    /\ session' = "loggedOn"
    /\ steamID' = "76561198000000001"
    /\ isLoggedIn' = (IF loggedOnHandler THEN TRUE ELSE isLoggedIn)
    /\ loggedOnHandler' = LoggedOnHandlerAfter(loggedOnHandler)
    /\ loginPc' = (IF loginPc \in {"refresh_pending", "credentials_pending"}
                   THEN (IF webSessionReady THEN "resolved" ELSE "wait_web")
                   ELSE loginPc)
    /\ UNCHANGED <<account, attempts, restoreAttempts, webSessionReady,
                   requestOutcome, analysisVars, encryptionVars, fetchVars>>

\* the event 'webSession'
SteamWebSession ==
    /\ eventCount < MaxEvents
    /\ eventCount' = eventCount + 1
    /\ session' = (IF session = "down" THEN "down" ELSE "web")
    /\ webSessionReady' = TRUE
    /\ loginPc' = (IF loginPc = "wait_web" THEN "resolved" ELSE loginPc)
    /\ UNCHANGED <<account, attempts, restoreAttempts, isLoggedIn, loggedOnHandler,
                   steamID, requestOutcome, analysisVars, encryptionVars, fetchVars>>

\* the event 'disconnected'; SteamUser may keep or clear its steamID
SteamDisconnected ==
    /\ eventCount < MaxEvents
    /\ eventCount' = eventCount + 1
    /\ session' = "down"
    /\ isLoggedIn' = FALSE
    /\ webSessionReady' = FALSE
    /\ steamID' \in {steamID, Null}
    /\ UNCHANGED <<account, loginPc, attempts, restoreAttempts, loggedOnHandler,
                   requestOutcome, analysisVars, encryptionVars, fetchVars>>

\* the event 'error': a pending logon with the refresh token gives way to
\* the logon with name and password, a pending logon with name and password
\* rejects login
SteamError ==
    /\ eventCount < MaxEvents
    /\ eventCount' = eventCount + 1
    /\ IF loginPc = "refresh_pending"
       THEN /\ attempts' = Append(attempts, "credentials")
            /\ loginPc' = "credentials_pending"
       ELSE IF loginPc = "credentials_pending"
       THEN /\ loginPc' = "rejected"
            /\ UNCHANGED attempts
       ELSE UNCHANGED <<loginPc, attempts>>
    /\ UNCHANGED <<account, restoreAttempts, isLoggedIn, webSessionReady,
                   loggedOnHandler, steamID, session, requestOutcome,
                   analysisVars, encryptionVars, fetchVars>>

\* the timers of tryExistingAuth (15 s) and login (30 s); the latter removes
\* every 'loggedOn' listener
AuthTimeout ==
    /\ loginPc \in {"refresh_pending", "credentials_pending"}
    /\ IF loginPc = "refresh_pending"
       THEN /\ attempts' = Append(attempts, "credentials")
            /\ loginPc' = "credentials_pending"
            /\ UNCHANGED loggedOnHandler
       ELSE /\ loginPc' = "rejected"
            /\ loggedOnHandler' = FALSE
            /\ UNCHANGED attempts
    /\ UNCHANGED <<account, restoreAttempts, isLoggedIn, webSessionReady, steamID,
                   session, eventCount, requestOutcome, analysisVars, encryptionVars, fetchVars>>

\* the timer of waitForWebSession: login resolves all the same
WebSessionTimeout ==
    /\ loginPc = "wait_web"
    /\ loginPc' = "resolved"
    /\ UNCHANGED <<account, attempts, restoreAttempts, isLoggedIn, webSessionReady,
                   loggedOnHandler, steamID, session, eventCount, requestOutcome,
                   analysisVars, encryptionVars, fetchVars>>

\* the event 'sessionExpired' of the community: tryRestoreSession logs on
\* with the refresh token if one is saved and decrypts, and else takes the
\* cookies if they are saved and not expired
SessionExpired ==
    /\ eventCount < MaxEvents
    /\ eventCount' = eventCount + 1
    /\ session' = (IF session = "web" THEN "loggedOn" ELSE session)
    /\ IF account.exists /\ account.refreshToken = "saved"
       THEN /\ restoreAttempts' = <<"refresh_token">>
            /\ webSessionReady' = FALSE
       ELSE IF account.exists /\ account.cookies = "valid"
       THEN /\ restoreAttempts' = <<"cookies">>
            /\ webSessionReady' = TRUE
       ELSE /\ restoreAttempts' = <<>>
            /\ webSessionReady' = FALSE
    /\ UNCHANGED <<account, loginPc, attempts, isLoggedIn, loggedOnHandler, steamID,
                   requestOutcome, analysisVars, encryptionVars, fetchVars>>

\* getMarketHistory / getInventory: rejected unless isConnected()
Request ==
    /\ requestOutcome' = (IF IsConnected THEN "sent" ELSE "not connected")
    /\ UNCHANGED <<account, loginPc, attempts, restoreAttempts, isLoggedIn,
                   webSessionReady, loggedOnHandler, steamID, session, eventCount,
                   analysisVars, encryptionVars, fetchVars>>

InitClient == AnalysisIdle /\ EncryptionIdle /\ ClientIdleWith(Accounts) /\ FetchIdle

NextClient ==
    \/ Login
    \/ SteamLoggedOn
    \/ SteamWebSession
    \/ SteamDisconnected
    \/ SteamError
    \/ AuthTimeout
    \/ WebSessionTimeout
    \/ SessionExpired
    \/ Request

SpecClient == InitClient /\ [][NextClient]_vars

\* the events of Steam delivered to a client in any order, and requests
NextEvents ==
    \/ SteamLoggedOn
    \/ SteamWebSession
    \/ SteamDisconnected
    \/ Request

SpecEvents == InitClient /\ [][NextEvents]_vars

(***************************************************************************)
(* SteamClient: getFullMarketHistory, getFullInventory                     *)
(***************************************************************************)
\* a client after login: 'loggedOn' and 'webSession' have been delivered
ClientConnected ==
    /\ account = NoAccount
    /\ loginPc = "resolved"
    /\ attempts = <<"credentials">>
    /\ restoreAttempts = <<>>
    /\ isLoggedIn = TRUE
    /\ webSessionReady = TRUE
    /\ loggedOnHandler = FALSE
    /\ steamID = "76561198000000001"
    /\ session = "web"
    /\ eventCount = 2
    /\ requestOutcome = "none"

\* the total_count Steam may report
TotalCounts == {0, 1, 100, 150, 250}

\* `const count = 100`
PageSize == 100

\* the default of maxItems
Infinity == 1000000

\* totalCount || Infinity
OrInfinity(v) == IF v = NoTotal \/ v = 0 THEN Infinity ELSE v

\* the config objects, and the lists of them a caller may pass; one object
\* may occur twice in a list
ConfigObjects == {"cs2", "dota2"}
ConfigLists == UNION {[1..n -> ConfigObjects] : n \in 0..MaxConfigs}

\* inventoryConfigs.indexOf(config), counted from 1
IndexOf(configs, config) == MinOf({i \in 1..Len(configs) : configs[i] = config})

\* the last two of the requests and sleeps after `steps` have been added
Wire(w, steps) ==
    LET all == w \o steps
    IN IF Len(all) <= 2 THEN all ELSE SubSeq(all, Len(all) - 1, Len(all))

GetFullMarketHistory ==
    /\ fetchPc = "idle"
    /\ \E total \in TotalCounts :
         fetchInput' = [total_count |-> total, configs |-> <<>>]
    /\ fetchPc' = (IF IsConnected THEN "history" ELSE "failed")
    /\ start' = 0
    /\ totalCount' = NoTotal
    /\ UNCHANGED <<cursor, requests, wire, analysisVars, encryptionVars, clientVars>>

\* while (start < (totalCount || Infinity) && start < maxItems)
HistoryLoopGoesOn == start < OrInfinity(totalCount) /\ start < Infinity

\* requests and start are followed up to MaxRequests turns of the loop; the
\* total counts of TotalCounts need fewer
Counted(n, most) == IF n < most THEN n ELSE most

\* a turn of the loop begins: getMarketHistory sends the page request
HistoryRequest ==
    /\ fetchPc = "history"
    /\ HistoryLoopGoesOn
    /\ IF IsConnected
       THEN /\ fetchPc' = "page"
            /\ requests' = Counted(requests + 1, MaxRequests)
            /\ wire' = Wire(wire, <<"request">>)
       ELSE /\ fetchPc' = "failed"
            /\ UNCHANGED <<requests, wire>>
    /\ UNCHANGED <<fetchInput, start, totalCount, cursor, analysisVars, encryptionVars,
                   clientVars>>

\* the response arrives: the rest of the turn, with the sleep at its end
HistoryResponse ==
    /\ fetchPc = "page"
    /\ \E ok \in BOOLEAN :
         IF ok
         THEN /\ totalCount' = (IF totalCount = NoTotal
                                THEN fetchInput.total_count ELSE totalCount)
              /\ start' = Counted(start + PageSize, MaxRequests * PageSize)
              /\ wire' = Wire(wire, IF start' < totalCount' /\ start' < Infinity
                                    THEN <<"sleep">> ELSE <<>>)
              /\ fetchPc' = "history"
         ELSE /\ fetchPc' = "failed"
              /\ UNCHANGED <<start, totalCount, wire>>
    /\ UNCHANGED <<fetchInput, cursor, requests, analysisVars, encryptionVars,
                   clientVars>>

HistoryReturn ==
    /\ fetchPc = "history"
    /\ ~HistoryLoopGoesOn
    /\ fetchPc' = "returned"
    /\ UNCHANGED <<fetchInput, start, totalCount, cursor, requests, wire,
                   analysisVars, encryptionVars, clientVars>>

GetFullInventory ==
    /\ fetchPc = "idle"
    /\ \E configs \in ConfigLists :
         fetchInput' = [total_count |-> 0, configs |-> configs]
    /\ fetchPc' = (IF IsConnected THEN "inventory" ELSE "failed")
    /\ cursor' = 1
    /\ UNCHANGED <<start, totalCount, requests, wire, analysisVars, encryptionVars,
                   clientVars>>

\* one turn of `for (const config of inventoryConfigs)`: the request, and the
\* sleep that follows it in the try block when the config is not the last;
\* a failed request goes to the catch block, which continues
InventoryItem ==
    /\ fetchPc = "inventory"
    /\ cursor <= Len(fetchInput.configs)
    /\ cursor' = cursor + 1
    /\ requests' = requests + 1
    /\ \E ok \in BOOLEAN :
         wire' = Wire(wire,
                      IF ok /\ IndexOf(fetchInput.configs, fetchInput.configs[cursor])
                                 < Len(fetchInput.configs)
                      THEN <<"request", "sleep">>
                      ELSE <<"request">>)
    /\ UNCHANGED <<fetchPc, fetchInput, start, totalCount, analysisVars,
                   encryptionVars, clientVars>>

InventoryReturn ==
    /\ fetchPc = "inventory"
    /\ cursor > Len(fetchInput.configs)
    /\ fetchPc' = "returned"
    /\ UNCHANGED <<fetchInput, start, totalCount, cursor, requests, wire,
                   analysisVars, encryptionVars, clientVars>>

InitFetch == AnalysisIdle /\ EncryptionIdle /\ ClientConnected /\ FetchIdle

NextFetch ==
    \/ GetFullMarketHistory
    \/ HistoryRequest
    \/ HistoryResponse
    \/ HistoryReturn
    \/ GetFullInventory
    \/ InventoryItem
    \/ InventoryReturn

SpecFetch == InitFetch /\ [][NextFetch]_vars

\* every await of the two calls is resumed in the end
SpecFetchFair ==
    /\ SpecFetch
    /\ WF_vars(HistoryRequest)
    /\ WF_vars(HistoryResponse)
    /\ WF_vars(HistoryReturn)
    /\ WF_vars(InventoryItem)
    /\ WF_vars(InventoryReturn)

(***************************************************************************)
(* Vocabulary of the properties                                            *)
(***************************************************************************)
Parsed == pc = "parsed"
Tx == parseResult.transactions
Entries == 1..Len(history)
IsPurchaseEntry(i) == history[i].steamid_purchaser = steamId
IsSaleEntry(i) == history[i].steamid_purchaser # steamId
NewIdOf(i) == history[i].asset.new_id
AssetIdOf(i) == history[i].asset.id

\* positions of the records of the transaction list made from entry i
RecordsOf(i) == {t \in 1..Len(Tx) : Tx[t].purchase_id = KeyOf(i)}

\* positions of the `completed` purchase records of entry p linked to entry s
PurchaseLegs(p, s) ==
    {t \in RecordsOf(p) : /\ Tx[t].role = "purchase"
                          /\ Tx[t].transaction_status = "completed"
                          /\ Tx[t].linked_sale_id = KeyOf(s)}

\* positions of the `completed` sale records of entry s linked to entry p
SaleLegs(p, s) ==
    {t \in RecordsOf(s) : /\ Tx[t].role = "sale"
                          /\ Tx[t].transaction_status = "completed"
                          /\ Tx[t].linked_purchase_id = KeyOf(p)}

\* purchase p carries a post-disposal id and sale s carries that asset id
IdsMatch(p, s) ==
    /\ IsPurchaseEntry(p) /\ IsSaleEntry(s)
    /\ Truthy(NewIdOf(p)) /\ Truthy(AssetIdOf(s))
    /\ ToStr(NewIdOf(p)) = ToStr(AssetIdOf(s))

\* C1: when several purchases carry the same post-disposal id and a sale with
\* that asset id exists, the first purchase in input order is emitted as
\* `completed`, linked to the sale, and every later one as `uncompleted` with
\* no linked sale.
C1_FirstPurchaseClaimsSale ==
    Parsed =>
      \A i, j \in Entries :
        (/\ i < j
         /\ IsPurchaseEntry(j)
         /\ NewIdOf(i) = NewIdOf(j)
         /\ \E s \in Entries : IdsMatch(i, s)
         /\ \A h \in 1..(i - 1) : ~(IsPurchaseEntry(h) /\ NewIdOf(h) = NewIdOf(i)))
        => /\ \E s \in Entries : IdsMatch(i, s) /\ PurchaseLegs(i, s) # {}
           /\ RecordsOf(j) # {}
           /\ \A t \in RecordsOf(j) : /\ Tx[t].transaction_status = "uncompleted"
                                      /\ Tx[t].linked_sale_id = Null

\* C2: every raw ledger entry appears in exactly one record of the returned
\* transaction list: none is missing and none is emitted twice.
C2_EveryEntryInExactlyOneRecord ==
    Parsed => \A i \in Entries : Cardinality(RecordsOf(i)) = 1

\* C3: the length of the returned transaction list equals
\* purchases_count + sales_count, which is also totalTransactions.
C3_LengthIsPurchasesPlusSales ==
    Parsed =>
      /\ Len(Tx) = parseResult.purchases_count + parseResult.sales_count
      /\ Len(Tx) = parseResult.totalTransactions

\* C4: completed_purchases_count + received_sales_count == sales_count.
C4_CompletedPlusReceivedIsSales ==
    Parsed =>
      parseResult.completed_purchases_count + parseResult.received_sales_count
        = parseResult.sales_count

\* C5: completed_purchases_count + uncompleted_purchases_count ==
\* purchases_count, the number of the account's purchases in the ledger.
C5_CompletedPlusUncompletedIsPurchases ==
    Parsed =>
      /\ parseResult.completed_purchases_count
           + parseResult.uncompleted_purchases_count
         = parseResult.purchases_count
      /\ parseResult.purchases_count
         = Cardinality({i \in Entries : IsPurchaseEntry(i)})

\* a parse of a ledger where two purchases carry the post-disposal id of the
\* one sale, so that both are counted as completed
C5_Witness ==
    /\ Parsed
    /\ parseResult.completed_purchases_count = 2
    /\ parseResult.sales_count = 1
    /\ \E i, j \in Entries : i # j /\ IsPurchaseEntry(i) /\ IsPurchaseEntry(j)
                             /\ Truthy(NewIdOf(i)) /\ NewIdOf(i) = NewIdOf(j)

\* C6 as stated: for every purchase P and sale S such that P's post-disposal
\* id equals S's asset id, the result holds exactly one `completed` pair that
\* references both, and S is in no `received` record, also when two sales
\* share the asset id.
C6_EveryMatchingPairLinked ==
    Parsed =>
      \A p, s \in Entries :
        IdsMatch(p, s) =>
          /\ Cardinality(PurchaseLegs(p, s)) = 1
          /\ Cardinality(SaleLegs(p, s)) = 1
          /\ \A t \in RecordsOf(s) : Tx[t].transaction_status # "received"

\* s is the last sale, in input order, that carries its asset id
LastSaleWithItsAssetId(s) ==
    \A r \in Entries :
      (IsSaleEntry(r) /\ r > s) => ToStr(AssetIdOf(r)) # ToStr(AssetIdOf(s))

\* C6 as amended: for every purchase P and sale S such that P's post-disposal
\* id equals S's asset id and no later sale carries the same asset id, the
\* result holds exactly one `completed` pair that references both P and S,
\* and S is in no `received` record.
C6_LastMatchingSaleLinked ==
    Parsed =>
      \A p, s \in Entries :
        (IdsMatch(p, s) /\ LastSaleWithItsAssetId(s)) =>
          /\ Cardinality(PurchaseLegs(p, s)) = 1
          /\ Cardinality(SaleLegs(p, s)) = 1
          /\ \A t \in RecordsOf(s) : Tx[t].transaction_status # "received"

\* a parse of a ledger where two sales share the asset id a purchase was
\* re-issued under: the later sale is linked, the earlier one is `received`
C6_Witness ==
    /\ Parsed
    /\ \E p, r, s \in Entries :
         /\ r < s
         /\ IdsMatch(p, r) /\ IdsMatch(p, s) /\ LastSaleWithItsAssetId(s)
         /\ PurchaseLegs(p, s) # {}
         /\ \E t \in RecordsOf(r) : Tx[t].transaction_status = "received"

\* C7: for every purchase whose post-disposal id matches no sale's asset id
\* the result holds exactly one record, `uncompleted` with linked_sale_id
\* null, and calculateROI returns no record for that purchase.
C7_UnmatchedPurchaseUncompleted ==
    Parsed =>
      \A p \in Entries :
        (IsPurchaseEntry(p) /\ ~ \E s \in Entries : IdsMatch(p, s)) =>
          /\ Cardinality(RecordsOf(p)) = 1
          /\ \A t \in RecordsOf(p) : /\ Tx[t].transaction_status = "uncompleted"
                                     /\ Tx[t].role = "purchase"
                                     /\ Tx[t].linked_sale_id = Null
          /\ roiStatus = "returned" =>
               \A r \in 1..Len(roiResult) : roiResult[r].transaction_id # KeyOf(p)

\* C8: every sale that is not linked as the `completed` counterpart of a
\* purchase, sales without asset id included, has exactly one record, and
\* that record is a `received` sale record.
C8_UnlinkedSaleReceivedOnce ==
    Parsed =>
      \A s \in Entries :
        (/\ IsSaleEntry(s)
         /\ ~ \E t \in RecordsOf(s) : Tx[t].transaction_status = "completed") =>
          /\ Cardinality(RecordsOf(s)) = 1
          /\ \A t \in RecordsOf(s) : /\ Tx[t].transaction_status = "received"
                                     /\ Tx[t].role = "sale"

\* a parse with a `received` sale that has no asset id next to a sale that
\* was linked to a purchase
C8_Witness ==
    /\ Parsed
    /\ \E s, r \in Entries :
         /\ IsSaleEntry(s) /\ AssetIdOf(s) = Null
         /\ \E t \in RecordsOf(s) : Tx[t].transaction_status = "received"
         /\ IsSaleEntry(r)
         /\ \E t \in RecordsOf(r) : Tx[t].transaction_status = "completed"

\* C9: an entry is classified `purchase` exactly when its steamid_purchaser
\* equals the analyzer's steamId and `sale` otherwise, and purchases_count +
\* sales_count is the number of entries of history.purchases.
C9_RoleByPurchaserPartitions ==
    Parsed =>
      /\ \A i \in Entries :
           /\ RecordsOf(i) # {}
           /\ \A t \in RecordsOf(i) :
                /\ Tx[t].role = (IF IsPurchaseEntry(i) THEN "purchase" ELSE "sale")
                /\ Tx[t].purchase.type = Tx[t].role
      /\ parseResult.purchases_count
           = Cardinality({i \in Entries : IsPurchaseEntry(i)})
      /\ parseResult.sales_count
           = Cardinality({i \in Entries : IsSaleEntry(i)})
      /\ parseResult.purchases_count + parseResult.sales_count = Len(history)

\* a parse of a ledger that holds both a purchase and a sale of the account
C9_Witness ==
    /\ Parsed
    /\ \E i, j \in Entries : IsPurchaseEntry(i) /\ IsSaleEntry(j)
    /\ parseResult.purchases_count >= 1
    /\ parseResult.sales_count >= 1

\* C10: a purchase whose raw entry has no post-disposal id never takes part
\* in linking: whatever asset ids the sales carry it is emitted as
\* `uncompleted` and never as `completed`.
C10_NoNewIdNeverCompleted ==
    Parsed =>
      \A p \in Entries :
        (IsPurchaseEntry(p) /\ NewIdOf(p) = Null) =>
          /\ RecordsOf(p) # {}
          /\ \A t \in RecordsOf(p) : Tx[t].transaction_status = "uncompleted"

\* entry i carries the three parts of a catalog key
HasCatalogKey(i) ==
    /\ Truthy(history[i].asset.appid)
    /\ Truthy(history[i].asset.contextid)
    /\ Truthy(AssetIdOf(i))

\* positions of the catalog items of the (appid, contextid) of entry i
CatalogContextOf(i) ==
    {k \in 1..Len(assets.items) :
       /\ assets.present
       /\ HasCatalogKey(i)
       /\ assets.items[k].appid = history[i].asset.appid
       /\ assets.items[k].contextid = history[i].asset.contextid}

ItemsAtKeyOf(i) == {k \in CatalogContextOf(i) : assets.items[k].assetid = AssetIdOf(i)}
ItemsUnownedAs(i) == {k \in CatalogContextOf(i) : assets.items[k].unowned_id = AssetIdOf(i)}

\* the names the priority order allows for entry i
AllowedNames(i) ==
    IF ItemsAtKeyOf(i) # {}
    THEN {assets.items[k].market_hash_name : k \in ItemsAtKeyOf(i)}
    ELSE IF ItemsUnownedAs(i) # {}
    THEN {assets.items[k].market_hash_name : k \in ItemsUnownedAs(i)}
    ELSE IF Truthy(history[i].market_name)
    THEN {history[i].market_name}
    ELSE {"Unknown Item"}

\* the entries whose records carry the name "Unknown Item"
UnknownEntries ==
    {i \in Entries : \E t \in RecordsOf(i) : Tx[t].purchase.market_name = "Unknown Item"}

\* C11: the display name of an entry is that of the catalog item at its key,
\* else that of a catalog item of the same context whose unowned_id is the
\* entry's asset id, else the entry's own market_name, else "Unknown Item";
\* a missing catalog does not make the parser fail, and a warning is printed
\* exactly for the entries named "Unknown Item".
C11_NamePriorityAndWarnings ==
    /\ (historyKind = "ledger" /\ callsLeft = 0) => pc = "parsed"
    /\ Parsed =>
         /\ \A i \in Entries :
              /\ RecordsOf(i) # {}
              /\ \A t \in RecordsOf(i) : Tx[t].purchase.market_name \in AllowedNames(i)
         /\ Len(warnings) = Cardinality(UnknownEntries)
         /\ \A w \in 1..Len(warnings) :
              \E i \in UnknownEntries : AssetIdOf(i) = warnings[w]

\* a parse where the catalog holds an item at the entry's key and another
\* item whose unowned_id is the entry's asset id, under different names
C11_Witness ==
    /\ Parsed
    /\ \E i \in Entries :
         /\ ItemsAtKeyOf(i) # {}
         /\ \E k \in ItemsUnownedAs(i) :
              \A d \in ItemsAtKeyOf(i) :
                assets.items[k].market_hash_name # assets.items[d].market_hash_name

\* a step that is a call of parseMarketHistory
ParseCall == callsLeft' < callsLeft

\* C12: parseMarketHistory throws whenever the history is absent or has no
\* purchases collection, and returns no result, partial or empty, for it.
C12_InvalidHistoryThrows ==
    [][(ParseCall /\ historyKind \in {"undefined", "no_purchases"})
         => /\ pc' = "failed"
            /\ parseResult' = parseResult
            /\ parseResult' = NoParse]_vars

\* the parser has thrown on a history object without purchases collection
C12_Witness == historyKind = "no_purchases" /\ pc = "failed"

Matched == pc = "parsed" /\ matchStatus = "returned"

\* positions of the records of `matched` / `unmatched` made from record t
MatchedOf(t) ==
    {k \in 1..Len(matchResult.matched) :
       matchResult.matched[k].transaction_id = Tx[t].transaction_id}
UnmatchedOf(t) ==
    {k \in 1..Len(matchResult.unmatched) :
       matchResult.unmatched[k].transaction_id = Tx[t].transaction_id}

\* the purchase-role records that carry a post-disposal id
EligibleRecords ==
    {t \in 1..Len(Tx) : Tx[t].role = "purchase" /\ Truthy(Tx[t].purchase.new_id)}

\* the inventory holds an item whose assetid is the post-disposal id of t
HeldInInventory(t) ==
    \E k \in 1..Len(inventory) :
      ToStr(inventory[k].assetid) = ToStr(Tx[t].purchase.new_id)

\* C14: every purchase-role record with a post-disposal id is in exactly one
\* of matched / unmatched: in matched, as "purchased", exactly when the
\* inventory holds an item with that asset id, else in unmatched as
\* "other_source"; sale records and purchases without post-disposal id are
\* in neither, and matched_count + unmatched_count == total_purchases.
C14_MatchPartitionsEligiblePurchases ==
    Matched =>
      /\ \A t \in EligibleRecords :
           IF HeldInInventory(t)
           THEN /\ Cardinality(MatchedOf(t)) = 1
                /\ UnmatchedOf(t) = {}
                /\ \A k \in MatchedOf(t) :
                     matchResult.matched[k].match_type = "purchased"
           ELSE /\ Cardinality(UnmatchedOf(t)) = 1
                /\ MatchedOf(t) = {}
                /\ \A k \in UnmatchedOf(t) :
                     matchResult.unmatched[k].match_type = "other_source"
      /\ \A t \in (1..Len(Tx)) \ EligibleRecords :
           MatchedOf(t) = {} /\ UnmatchedOf(t) = {}
      /\ matchResult.matched_count = Len(matchResult.matched)
      /\ matchResult.unmatched_count = Len(matchResult.unmatched)
      /\ matchResult.total_purchases = Cardinality(EligibleRecords)
      /\ matchResult.matched_count + matchResult.unmatched_count
           = matchResult.total_purchases

\* a match with a held purchase, a purchase that is not held, a purchase
\* without post-disposal id and a sale
C14_Witness ==
    /\ Matched
    /\ matchResult.matched_count >= 1
    /\ matchResult.unmatched_count >= 1
    /\ \E t \in 1..Len(Tx) : Tx[t].role = "purchase" /\ t \notin EligibleRecords

\* h is the value in hundredths nearest to 100 * count / total
NearestHundredth(h, count, total) ==
    LET d == h * total - count * 10000
    IN 2 * (IF d < 0 THEN -d ELSE d) <= total

\* C15: both percentages are the text "0%" when there is no eligible
\* purchase; otherwise they are the two-decimal percentages of matched and
\* unmatched over the total, and their sum is within 0.01 of 100.
C15_MatchPercentages ==
    Matched =>
      LET total == Cardinality(EligibleRecords)
          m == matchResult.statistics.matched_percentage
          u == matchResult.statistics.unmatched_percentage
          sum == m.hundredths + u.hundredths
      IN IF total = 0
         THEN m = ZeroPercent /\ u = ZeroPercent
         ELSE /\ m.decimals = 2 /\ u.decimals = 2
              /\ NearestHundredth(m.hundredths, Len(matchResult.matched), total)
              /\ NearestHundredth(u.hundredths, Len(matchResult.unmatched), total)
              /\ sum >= 9999 /\ sum <= 10001

\* a match of three eligible purchases of which one is held: 33.33% and 66.67%
C15_Witness ==
    /\ Matched
    /\ matchResult.total_purchases = 3
    /\ matchResult.matched_count = 1
    /\ matchResult.statistics.matched_percentage.hundredths = 3333
    /\ matchResult.statistics.unmatched_percentage.hundredths = 6667

RoiReturned == pc = "parsed" /\ roiStatus = "returned"

\* positions of the ROI records made from record t
RoiRecordsOf(t) ==
    {r \in 1..Len(roiResult) : roiResult[r].transaction_id = Tx[t].purchase_id}

\* C16: calculateROI, applied to the transactions of a parse result, returns
\* exactly one record for each `completed` purchase record and none for an
\* `uncompleted` or `received` record, so the number of ROI records is
\* completed_purchases_count.
C16_OneRoiRecordPerCompletedPurchase ==
    RoiReturned =>
      /\ \A t \in 1..Len(Tx) :
           IF Tx[t].role = "purchase" /\ Tx[t].transaction_status = "completed"
           THEN Cardinality(RoiRecordsOf(t)) = 1
           ELSE Tx[t].transaction_status \in {"uncompleted", "received"} =>
                  RoiRecordsOf(t) = {}
      /\ Len(roiResult) = parseResult.completed_purchases_count

\* ROI computed over a completed pair and an uncompleted purchase
C16_Witness ==
    /\ RoiReturned
    /\ Len(roiResult) = 1
    /\ parseResult.uncompleted_purchases_count = 1

\* an amount of the ledger, 0 when the field is absent
AmountOrZero(v) == IF v = Undefined THEN 0 ELSE v

\* the entry of the ledger stored under key k
EntryAt(k) == history[CHOOSE i \in Entries : KeyOf(i) = k]

\* the `completed` purchase records
CompletedPurchaseRecords ==
    {t \in 1..Len(Tx) : Tx[t].role = "purchase" /\ Tx[t].transaction_status = "completed"}

\* C17: for each completed pair the ROI record has buy_price = paid amount +
\* paid fee of the purchase, sell_price = received amount of the linked sale
\* (0 if absent), profit = sell_price - buy_price and roi_percent =
\* profit / buy_price * 100 rounded to two decimals.
C17_RoiRecordValues ==
    RoiReturned =>
      \A t \in CompletedPurchaseRecords :
        /\ RoiRecordsOf(t) # {}
        /\ \A r \in RoiRecordsOf(t) :
             LET bought == EntryAt(Tx[t].purchase_id)
                 sold == EntryAt(Tx[t].linked_sale_id)
                 buy == AmountOrZero(bought.paid_amount) + AmountOrZero(bought.paid_fee)
                 sell == AmountOrZero(sold.received_amount)
                 rec == roiResult[r]
                 d == rec.roi_hundredths * buy - (sell - buy) * 10000
             IN /\ rec.buy_price = buy
                /\ rec.sell_price = sell
                /\ rec.profit = sell - buy
                /\ buy > 0 => 2 * (IF d < 0 THEN -d ELSE d) <= buy

\* paid 10 and received 15 give profit 5 and ROI 50
C17_Witness ==
    /\ RoiReturned
    /\ \E r \in 1..Len(roiResult) :
         /\ roiResult[r].purchase_raw.raw.paid_amount = 10
         /\ roiResult[r].sale_raw.raw.received_amount = 15
         /\ roiResult[r].buy_price = 10 /\ roiResult[r].sell_price = 15
         /\ roiResult[r].profit = 5 /\ roiResult[r].roi_hundredths = 5000

\* C18: for every completed pair whose buy price is 0 the ROI record is
\* produced and its roi_percent is 0.
C18_ZeroBuyPriceGivesZeroRoi ==
    RoiReturned =>
      \A t \in CompletedPurchaseRecords :
        LET bought == EntryAt(Tx[t].purchase_id)
        IN AmountOrZero(bought.paid_amount) + AmountOrZero(bought.paid_fee) = 0 =>
             /\ Cardinality(RoiRecordsOf(t)) = 1
             /\ \A r \in RoiRecordsOf(t) : roiResult[r].roi_hundredths = 0

\* a purchase for nothing sold for 15
C18_Witness ==
    /\ RoiReturned
    /\ \E r \in 1..Len(roiResult) :
         /\ roiResult[r].buy_price = 0
         /\ roiResult[r].profit = 15
         /\ roiResult[r].roi_hundredths = 0

\* a step that is a call of calculateROI
RoiCall == roiStatus = "none" /\ roiStatus' # "none"

\* C19: calculateROI throws whenever its argument is not an array, and then
\* produces no result, not even a partial one.
C19_NonArrayThrows ==
    [][(RoiCall /\ roiArg \in {"object", "undefined"}) =>
         (roiStatus' = "thrown" /\ roiResult' = <<>>)]_vars

\* calculateROI has thrown on an object that is not an array, after a parse
\* that linked a pair
C19_Witness ==
    /\ roiArg = "object"
    /\ roiStatus = "thrown"
    /\ parseResult.completed_purchases_count = 1

StatsReturned == pc = "parsed" /\ statsStatus = "returned"

\* the sum of f over the positions in S
RECURSIVE SumAt(_, _)
SumAt(f, S) ==
    IF S = {}
    THEN 0
    ELSE LET x == CHOOSE x \in S : TRUE
         IN f[x] + SumAt(f, S \ {x})

\* the paid total of each purchase-role record
InvestedAt ==
    [t \in 1..Len(Tx) |->
       IF Tx[t].role = "purchase" THEN Tx[t].purchase.paid_total ELSE 0]

\* the received amount of each sale-role record that has one
ReceivedAt ==
    [t \in 1..Len(Tx) |->
       IF Tx[t].role = "sale"
       THEN AmountOrZero(Tx[t].purchase.raw.received_amount)
       ELSE 0]

\* C20: overall.totalInvested is the sum of the paid totals of the
\* purchase-role records, overall.totalReceived the sum of the received
\* amounts of the sale-role records, and overall.totalProfit their difference.
C20_StatsTotalsAreSums ==
    StatsReturned =>
      /\ statsResult.overall.totalInvested = SumAt(InvestedAt, 1..Len(Tx))
      /\ statsResult.overall.totalReceived = SumAt(ReceivedAt, 1..Len(Tx))
      /\ statsResult.overall.totalProfit
           = SumAt(ReceivedAt, 1..Len(Tx)) - SumAt(InvestedAt, 1..Len(Tx))

\* C21: whenever the total invested is 0 the statistics return
\* overall.roiPercent 0; for a ledger without entries all totals are 0,
\* roiPercent is 0, the ROI list is empty and both match percentages are "0%".
C21_ZeroInvestedGivesZeroRoi ==
    /\ StatsReturned =>
         (SumAt(InvestedAt, 1..Len(Tx)) = 0 => statsResult.overall.roi_hundredths = 0)
    /\ (Parsed /\ history = <<>>) =>
         /\ StatsReturned =>
              /\ statsResult.overall.totalInvested = 0
              /\ statsResult.overall.totalReceived = 0
              /\ statsResult.overall.totalProfit = 0
              /\ statsResult.overall.roi_hundredths = 0
         /\ statsStatus # "thrown"
         /\ RoiReturned => roiResult = <<>>
         /\ Matched =>
              /\ matchResult.statistics.matched_percentage = ZeroPercent
              /\ matchResult.statistics.unmatched_percentage = ZeroPercent

\* the statistics of a ledger that holds a sale for 15 and a purchase for
\* nothing: 15 received, nothing invested
C21_Witness ==
    /\ StatsReturned
    /\ parseResult.purchases_count = 1
    /\ statsResult.overall.totalInvested = 0
    /\ statsResult.overall.totalProfit = 15
    /\ statsResult.overall.roi_hundredths = 0

\* C22: the statistics copy the purchase, sale, completed, uncompleted and
\* received counts of their input into their output unchanged, whatever the
\* transaction list holds.
C22_StatsCopyCounts ==
    StatsReturned =>
      /\ statsResult.overall.purchasesCount = parseResult.purchases_count
      /\ statsResult.overall.salesCount = parseResult.sales_count
      /\ statsResult.overall.completedPurchases = parseResult.completed_purchases_count
      /\ statsResult.overall.uncomletedPurchases = parseResult.uncompleted_purchases_count
      /\ statsResult.overall.receivedSales = parseResult.received_sales_count

\* statistics of a data object that counts one purchase and no sale while
\* its only transaction is a `received` sale
C22_Witness ==
    /\ StatsReturned
    /\ Len(Tx) = 1
    /\ Tx[1].role = "sale"
    /\ parseResult.purchases_count = 1
    /\ parseResult.sales_count = 0
    /\ parseResult.received_sales_count = 0
    /\ statsResult.overall.purchasesCount = 1

\* the display names occurring in the transaction list
DisplayNames == {Tx[t].purchase.market_name : t \in 1..Len(Tx)}

\* the positions of a set of names, to sum over them
NamesInOrder(names) ==
    CHOOSE f \in [1..Cardinality(names) -> names] : {f[i] : i \in DOMAIN f} = names

\* `breakdown` has one entry for every display name, and its invested and
\* received totals add up to the overall ones
IsBreakdownOf(breakdown, overall) ==
    /\ DOMAIN breakdown = DisplayNames
    /\ LET names == NamesInOrder(DisplayNames)
           invested == [i \in DOMAIN names |-> breakdown[names[i]].totalInvested]
           received == [i \in DOMAIN names |-> breakdown[names[i]].totalReceived]
       IN /\ SumAt(invested, DOMAIN names) = overall.totalInvested
          /\ SumAt(received, DOMAIN names) = overall.totalReceived

\* C23: the object returned by the statistics holds, next to `overall`, a
\* per-item breakdown keyed by display name, with one entry for every
\* display name of the transaction list, whose invested and received totals
\* add up to overall.totalInvested and overall.totalReceived.
C23_StatsReturnPerItemBreakdown ==
    StatsReturned =>
      \E field \in DOMAIN statsResult \ {"overall"} :
        IsBreakdownOf(statsResult[field], statsResult.overall)

\* what the parse returns for the ledger, and the three results computed
\* from it alone
ParseAlone == parseMarketHistory(history, assets, steamId)
RoiAlone == calculateROI(ParseAlone.transactions)
StatsAlone == calculateTransactionStatistics(ParseAlone)
MatchAlone == matchInventoryWithPurchases(ParseAlone.transactions, inventory)

ProfitAt == [r \in 1..Len(roiResult) |-> roiResult[r].profit]

\* the received amount of each `received` sale, 0 when it is absent
ReceivedSaleAt ==
    [t \in 1..Len(Tx) |->
       IF Tx[t].role = "sale" /\ Tx[t].transaction_status = "received"
       THEN AmountOrZero(Tx[t].purchase.raw.received_amount)
       ELSE 0]

\* the paid total of each `uncompleted` purchase
UncompletedPaidAt ==
    [t \in 1..Len(Tx) |->
       IF Tx[t].role = "purchase" /\ Tx[t].transaction_status = "uncompleted"
       THEN Tx[t].purchase.paid_total
       ELSE 0]

\* C28: calculateROI and the statistics value every sale alike, an absent
\* received amount counting as 0: overall.totalProfit is the sum of the
\* profits of the ROI records plus the received amounts of the `received`
\* sales minus the paid totals of the `uncompleted` purchases, and
\* overall.totalReceived is a defined number.
C28_RoiAndStatsValueSalesAlike ==
    (RoiReturned /\ StatsReturned) =>
      /\ statsResult.overall.totalReceived \notin {NaN, Undefined}
      /\ statsResult.overall.totalProfit
           = SumAt(ProfitAt, 1..Len(roiResult))
             + SumAt(ReceivedSaleAt, 1..Len(Tx))
             - SumAt(UncompletedPaidAt, 1..Len(Tx))

\* a step that is a call of verifyPassword
VerifyCall == encLast' = "verifyPassword"

\* C29: verifyPassword leaves masterKey as it was, whether it returns true
\* or false, so what decrypted before the call decrypts after it.
C29_VerifyPasswordKeepsKey ==
    [][VerifyCall =>
         /\ masterKey' = masterKey
         /\ \A c \in vault :
              ~DecryptThrows(c, masterKey) => ~DecryptThrows(c, masterKey')]_vars

\* the positions of `attempts` at which login authenticates in way w
AttemptsBy(w) == {i \in 1..Len(attempts) : attempts[i] = w}

\* C25: login tries the saved refresh token first; if that fails and
\* unexpired cookies are saved it restores the session from the cookies
\* next; it logs in with name and password only after both.
C25_LoginRestoresInDocumentedOrder ==
    \A i \in AttemptsBy("credentials") :
      /\ (account.exists /\ account.refreshToken = "saved") =>
           \E j \in AttemptsBy("refresh_token") : j < i
      /\ (account.exists /\ account.cookies = "valid") =>
           \E j \in AttemptsBy("cookies") : j < i

\* C30: whenever the last 'loggedOn' and a 'webSession' after it are not
\* followed by 'disconnected', isConnected() is truthy, and requests are not
\* rejected as not connected.
C30_ConnectedWhileSessionUp ==
    /\ [](session = "web" => IsConnected)
    /\ [][session = "web" => requestOutcome' # "not connected"]_requestOutcome

\* C26: within one getFullMarketHistory or getFullInventory a sleep lies
\* between any two consecutive requests.
C26_SleepBetweenRequests == wire # <<"request", "request">>

\* the number of pages of a history of n records
PagesOf(n) == (n + PageSize - 1) \div PageSize

\* C27: getFullMarketHistory with the default maxItems ends when every page
\* request succeeds, for every total_count >= 0: it has then sent at least
\* one request, and at most ceil(total_count / 100) when total_count > 0.
C27_FullHistoryTerminates ==
    /\ [](fetchPc = "returned" /\ totalCount # NoTotal =>
            /\ requests >= 1
            /\ fetchInput.total_count > 0 => requests <= PagesOf(fetchInput.total_count))
    /\ (fetchPc \in {"history", "page"}) ~> (fetchPc \in {"returned", "failed"})

====
